---- MODULE Spec2Model ----
(***************************************************************************)
(* sciplayer-api: the SQLite-backed store (package sqlite: New, migrate,   *)
(* CreateDevice, AddPlaylist, ListPlaylists) and the start-up path of the  *)
(* server's main.                                                          *)
(*                                                                         *)
(* The durable database is the pair (devices, playlists).  A transaction's *)
(* uncommitted inserts live in txRows[p] until tx.Commit appends them to   *)
(* playlists or tx.Rollback discards them.  database/sql's pool is the set *)
(* holders of callers that own a connection; it is capped at               *)
(* MaxOpenConns.  Each caller p runs one store call at a time, one SQL     *)
(* statement per step.  A statement can fail by a storage fault (an input  *)
(* of the step) or because the caller's context was cancelled.             *)
(***************************************************************************)
EXTENDS Integers, Sequences, FiniteSets, TLC

\* ------------------------------------------------------------- bounds
MaxCalls == 2        \* store calls started in one run of concurrent callers
MaxSeqCalls == 3     \* store calls started in one run of a sequential caller
MaxLifeCalls == 2    \* store calls started in one run with Close and reopen
MaxHttpCalls == 2    \* requests served in one run of the HTTP surface
MaxClock == 1        \* CURRENT_TIMESTAMP ranges over 0..MaxClock
MaxFaults == 1       \* storage faults injected in one run
MaxCancels == 1      \* contexts cancelled in one run

\* ------------------------------------------------- program constants
MaxOpenConns == 1    \* db.SetMaxOpenConns(1)

Procs   == {"c1", "c2"}          \* concurrent callers (request goroutines)
Before(q, p) == q = "c1" /\ p = "c2"
Devices == {"d1", "d2"}          \* device identifiers
Names   == {"n1"}                \* playlist names
Urls    == {"u1"}                \* playlist urls
Ops     == {"CreateDevice", "AddPlaylist", "ListPlaylists"}

ErrDeviceNotFound == "ErrDeviceNotFound"

VARIABLES
    phase,      \* main: "boot", "opened" (New returned), "serving", "halted"
    handle,     \* *Store returned by New: "none", "open", "nil"
    newErr,     \* error returned by New: "nil" or "err"
    migrateFailed, \* migrate(db) returned an error during New
    closed,     \* the sql.DB of the store has been closed
    closeDone,  \* Store.Close() has returned since the store was opened
    reopened,   \* the process was started again on the same database file
    devices,    \* table devices: sequence of rows, in rowid order
    playlists,  \* table playlists (committed rows), in rowid order
    txRows,     \* txRows[p]: rows inserted by p's open transaction
    holders,    \* callers that own a pooled connection (an open tx)
    clock,      \* CURRENT_TIMESTAMP
    pc,         \* pc[p]: position of caller p in its store call
    cur,        \* cur[p]: the call p is running
    ctxDone,    \* ctxDone[p]: p's context has been cancelled
    hist,       \* returned calls and what they returned, in order of return
    calls,      \* number of calls started
    faults,     \* number of storage faults so far
    cancels,    \* number of cancelled contexts so far
    committed   \* calls whose transaction or statement committed

vars == <<phase, handle, newErr, migrateFailed, closed, closeDone, reopened,
          devices, playlists, txRows, holders, clock, pc, cur, ctxDone, hist,
          calls, faults, cancels, committed>>

dbVars   == <<devices, playlists>>
bootVars == <<phase, handle, newErr, migrateFailed, closed, closeDone,
              reopened>>

\* ------------------------------------------------------------ helpers
Max(S) == CHOOSE x \in S : \A y \in S : y <= x

Range(s) == {s[i] : i \in 1..Len(s)}

\* SELECT 1 FROM devices WHERE device_identifier = ?  (also the lookup the
\* UNIQUE index and the playlists foreign key make in devices)
DeviceExistsNoWhere(devs, d) == Len(devs) > 0

DeviceExists(devs, d) ==
    \E i \in 1..Len(devs) : devs[i].device_identifier = d

\* INTEGER PRIMARY KEY AUTOINCREMENT: one more than the largest rowid
NextRowId(rows) ==
    IF Len(rows) = 0 THEN 1 ELSE 1 + Max({rows[i].id : i \in 1..Len(rows)})

\* INSERT INTO devices ... ON CONFLICT(device_identifier) DO NOTHING
InsertDeviceOrReplace(devs, d, ts, c) ==
    [rows |-> Append(SelectSeq(devs, LAMBDA r : r.device_identifier # d),
                     [id |-> NextRowId(devs), device_identifier |-> d,
                      created_at |-> ts, call |-> c]),
     affected |-> 1]

InsertDeviceNoConflictClause(devs, d, ts, c) ==
    [rows |-> Append(devs, [id |-> NextRowId(devs), device_identifier |-> d,
                            created_at |-> ts, call |-> c]),
     affected |-> 1]

InsertDevice(devs, d, ts, c) ==
    IF DeviceExists(devs, d)
    THEN [rows |-> devs, affected |-> 0]
    ELSE [rows |-> Append(devs, [id |-> NextRowId(devs), device_identifier |-> d,
                                 created_at |-> ts, call |-> c]),
          affected |-> 1]

\* return affected > 0, nil
CreatedAlways(affected) == affected >= 0

Created(affected) == affected > 0

\* ORDER BY created_at ASC, id ASC
RowLessIdDesc(a, b) ==
    \/ a.created_at < b.created_at
    \/ a.created_at = b.created_at /\ a.id > b.id

RowLess(a, b) ==
    \/ a.created_at < b.created_at
    \/ a.created_at = b.created_at /\ a.id < b.id

RECURSIVE InsertSorted(_, _)
InsertSorted(s, r) ==
    IF s = <<>> THEN <<r>>
    ELSE IF RowLess(r, Head(s)) THEN <<r>> \o s
    ELSE <<Head(s)>> \o InsertSorted(Tail(s), r)

RECURSIVE OrderBy(_)
OrderBy(rows) ==
    IF rows = <<>> THEN <<>>
    ELSE InsertSorted(OrderBy(Tail(rows)), Head(rows))

\* SELECT name, url, created_at FROM playlists WHERE device_identifier = ?
\* ORDER BY created_at ASC, id ASC
IsDeviceRow(r, d) == r.device_identifier = d

SelectPlaylists(table, d) ==
    OrderBy(SelectSeq(table, LAMBDA r : IsDeviceRow(r, d)))

\* tx.QueryRowContext(ctx, deviceCheck, deviceID).Scan: sql.ErrNoRows is
\* turned into store.ErrDeviceNotFound
TxCheckDeviceSkipped(devs, d) == "nil"

TxCheckDevice(devs, d) ==
    IF DeviceExists(devs, d) THEN "nil" ELSE ErrDeviceNotFound

\* tx.ExecContext(ctx, insertPlaylist, deviceID, name, playlistURL): the row
\* gets the next rowid and CURRENT_TIMESTAMP and stays private to the
\* transaction; the foreign key (_foreign_keys=on) rejects an unknown device.
PlaylistRow(table, staged, d, n, u, ts, c) ==
    [id |-> NextRowId(table \o staged), device_identifier |-> d, name |-> n,
     url |-> u, created_at |-> ts, call |-> c]

TxExecInsertAutocommit(devs, table, staged, d, n, u, ts, c) ==
    IF ~DeviceExists(devs, d)
    THEN [table |-> table, staged |-> staged, err |-> "constraint"]
    ELSE [table |-> Append(table, PlaylistRow(table, staged, d, n, u, ts, c)),
          staged |-> staged, err |-> "nil"]

TxExecInsert(devs, table, staged, d, n, u, ts, c) ==
    IF ~DeviceExists(devs, d)
    THEN [table |-> table, staged |-> staged, err |-> "constraint"]
    ELSE [table |-> table,
          staged |-> Append(staged, PlaylistRow(table, staged, d, n, u, ts, c)),
          err |-> "nil"]

\* tx.Commit(): a cancelled context makes Commit return ctx.Err() without
\* committing; a failed COMMIT is rolled back by the driver.
TxCommitDropsRows(table, staged, done, fault) ==
    IF done THEN [table |-> table, err |-> "canceled"]
    ELSE IF fault THEN [table |-> table, err |-> "io"]
    ELSE [table |-> table, err |-> "nil"]

TxCommitKeepsOnFault(table, staged, done, fault) ==
    IF done THEN [table |-> table, err |-> "canceled"]
    ELSE IF fault THEN [table |-> table \o staged, err |-> "io"]
    ELSE [table |-> table \o staged, err |-> "nil"]

TxCommitThenCtxCheck(table, staged, done, fault) ==
    IF fault THEN [table |-> table, err |-> "io"]
    ELSE IF done THEN [table |-> table \o staged, err |-> "canceled"]
    ELSE [table |-> table \o staged, err |-> "nil"]

TxCommit(table, staged, done, fault) ==
    IF done THEN [table |-> table, err |-> "canceled"]
    ELSE IF fault THEN [table |-> table, err |-> "io"]
    ELSE [table |-> table \o staged, err |-> "nil"]

\* The deferred func of AddPlaylist: tx.Rollback() when err != nil.  A
\* transaction is over once Commit was called or Rollback ran.
TxEndedOnlyByCommit(err, commitCalled) == commitCalled

TxEndedOnReturn(err, commitCalled) == commitCalled \/ err # "nil"

\* database/sql hands out a connection only while fewer than MaxOpenConns
\* are in use
CanAcquireUnbounded(held) == TRUE

CanAcquire(held) == Cardinality(held) < MaxOpenConns

\* migrate: CREATE TABLE IF NOT EXISTS leaves the rows of a table that is
\* already there as they are
MigrateRecreates(table) == <<>>

Migrate(table) == table

\* Store.Close: s.db.Close() marks the pool closed
CloseNoop(wasClosed) == wasClosed

CloseEffect(wasClosed) == TRUE

\* New: what it returns for each outcome of MkdirAll, sql.Open, migrate and
\* db.Close.  In the migrate branch `err := db.Close()` shadows migrate's
\* error, and the shadowing variable is the one returned.
NewResult(mkdirOk, openOk, migrateOk, closeOk) ==
    IF ~mkdirOk THEN [store |-> "nil", err |-> "err"]
    ELSE IF ~openOk THEN [store |-> "nil", err |-> "err"]
    ELSE IF ~migrateOk
         THEN IF ~closeOk THEN [store |-> "nil", err |-> "err"]
              ELSE [store |-> "nil", err |-> "nil"]
    ELSE [store |-> "open", err |-> "nil"]

\* --------------------------------------------------------- HTTP surface
\* Requests: the method, the route, the {id} of the path, whether the body
\* decodes as JSON, and the fields of the decoded body.
Methods  == {"GET", "POST", "DELETE"}
RawIds   == Devices \cup {"", " "}
RawNames == Names \cup {" "}
RawUrls  == Urls \cup {"", "/u1", "mailto:u1"}

Request(m, path, id, json, deviceId, name, url) ==
    [method |-> m, path |-> path, id |-> id, json |-> json,
     deviceId |-> deviceId, name |-> name, url |-> url]

NoRequest == Request("GET", "/healthz", "", FALSE, "", "", "")

DeviceRequests ==
    {Request("POST", "/devices", "", TRUE, r, "", "") : r \in RawIds}
    \cup {Request("POST", "/devices", "", FALSE, "", "", ""),
          Request("GET", "/devices", "", FALSE, "", "", "")}

PlaylistRequests ==
    {Request("POST", "/devices/{id}/playlists", d, TRUE, "", n, u) :
        d \in Devices, n \in RawNames, u \in RawUrls}
    \cup {Request(m, "/devices/{id}/playlists", d, FALSE, "", "", "") :
            m \in Methods, d \in Devices}

Requests == DeviceRequests \cup PlaylistRequests

\* The request with which a handler reaches the store method o.
RequestOf(o, d, n, u) ==
    IF o = "CreateDevice" THEN Request("POST", "/devices", "", TRUE, d, "", "")
    ELSE IF o = "AddPlaylist"
    THEN Request("POST", "/devices/{id}/playlists", d, TRUE, "", n, u)
    ELSE Request("GET", "/devices/{id}/playlists", d, FALSE, "", "", "")

\* Requests that pass the handler's checks and reach the store.
StoreRequests ==
    {RequestOf(o, d, n, u) :
        o \in Ops, d \in Devices, n \in Names, u \in Urls}

\* strings.TrimSpace, on the strings at hand
TrimSpace(str) == IF str = " " THEN "" ELSE str

\* url.Parse, on the strings at hand: "u1" stands for "https://h/u1"
\* and the result is <<Scheme, Host>>
ParseURL(raw) ==
    IF raw = "u1" THEN <<"https", "h">>
    ELSE IF raw = "mailto:u1" THEN <<"mailto", "">>
    ELSE <<"", "">>

Scheme(parsed) == parsed[1]

Host(parsed) == parsed[2]

\* validateURL returns nil
validateURLAny(raw) == TRUE

validateURL(raw) == Scheme(ParseURL(raw)) # "" /\ Host(ParseURL(raw)) # ""

\* respondJSON, http.Error, and the helpers built on them
respondJSON(status, shape) ==
    [status |-> status, ctype |-> "application/json", shape |-> shape]

httpError(status) ==
    [status |-> status, ctype |-> "text/plain", shape |-> "text"]

badRequest == respondJSON(400, "error")

internalServerError == respondJSON(500, "error")

methodNotAllowed == respondJSON(405, "error")

deviceNotFound == httpError(404)

playlistCreated == respondJSON(201, "playlist")

playlistsListed == respondJSON(200, "playlists")

NoResponse == respondJSON(0, "none")

\* What a handler does with a request before it reaches the store: it
\* answers, or it calls the store method op.
Answer(resp) ==
    [call |-> FALSE, resp |-> resp, op |-> "none", dev |-> "d1",
     name |-> "n1", url |-> "u1"]

CallStore(o, d, n, u) ==
    [call |-> TRUE, resp |-> NoResponse, op |-> o, dev |-> d,
     name |-> n, url |-> u]

AnswerBadRequest == Answer(badRequest)

AnswerMethodNotAllowed == Answer(methodNotAllowed)

createDevice(req) ==
    IF ~req.json THEN AnswerBadRequest
    ELSE IF TrimSpace(req.deviceId) = "" THEN AnswerBadRequest
    ELSE CallStore("CreateDevice", TrimSpace(req.deviceId), "n1", "u1")

handleDevices(req) ==
    IF req.method = "POST" THEN createDevice(req)
    ELSE AnswerMethodNotAllowed

addPlaylist(req) ==
    IF ~req.json THEN AnswerBadRequest
    ELSE IF TrimSpace(req.name) = "" THEN AnswerBadRequest
    ELSE IF TrimSpace(req.url) = "" THEN AnswerBadRequest
    ELSE IF ~validateURL(TrimSpace(req.url)) THEN AnswerBadRequest
    ELSE CallStore("AddPlaylist", req.id, TrimSpace(req.name),
                   TrimSpace(req.url))

listPlaylists(req) == CallStore("ListPlaylists", req.id, "n1", "u1")

handlePlaylists(req) ==
    IF req.method = "POST" THEN addPlaylist(req)
    ELSE IF req.method = "GET" THEN listPlaylists(req)
    ELSE AnswerMethodNotAllowed

buildMux(req) ==
    IF req.path = "/devices" THEN handleDevices(req) ELSE handlePlaylists(req)

\* What a handler answers once the store method has returned.
createDeviceStatusInverted(created) == IF created THEN 200 ELSE 201

createDeviceStatus(created) == IF created THEN 201 ELSE 200

Reply(o, err, created) ==
    IF o = "CreateDevice"
    THEN IF err # "nil" THEN internalServerError
         ELSE respondJSON(createDeviceStatus(created), "device")
    ELSE IF err = ErrDeviceNotFound THEN deviceNotFound
    ELSE IF err # "nil" THEN internalServerError
    ELSE IF o = "AddPlaylist" THEN playlistCreated
    ELSE playlistsListed

\* What a store method hands back next to its error: CreateDevice the
\* created flag, ListPlaylists the rows, AddPlaylist nothing.
ReturnValuesAddReports(o, created, rows) ==
    IF o = "ListPlaylists" THEN <<rows>> ELSE <<created>>

ReturnValues(o, created, rows) ==
    IF o = "CreateDevice" THEN <<created>>
    ELSE IF o = "ListPlaylists" THEN <<rows>>
    ELSE <<>>

\* ------------------------------------------------------------- state
NoCall ==
    [op |-> "none", dev |-> "d1", name |-> "n1", url |-> "u1",
     call |-> 0, begun |-> 0, had |-> FALSE, afterClose |-> FALSE,
     reopened |-> FALSE, req |-> NoRequest]

\* The database file may be new or left by an earlier run.
InitialDevices ==
    {<<>>,
     <<[id |-> 1, device_identifier |-> "d1", created_at |-> 0, call |-> 0]>>}

Init ==
    /\ phase = "boot"
    /\ handle = "none"
    /\ newErr = "nil"
    /\ migrateFailed = FALSE
    /\ closed = FALSE
    /\ closeDone = FALSE
    /\ reopened = FALSE
    /\ devices \in InitialDevices
    /\ playlists = <<>>
    /\ txRows = [p \in Procs |-> <<>>]
    /\ holders = {}
    /\ clock = 0
    /\ pc = [p \in Procs |-> "idle"]
    /\ cur = [p \in Procs |-> NoCall]
    /\ ctxDone = [p \in Procs |-> FALSE]
    /\ hist = <<>>
    /\ calls = 0
    /\ faults = 0
    /\ cancels = 0
    /\ committed = {}

\* ------------------------------------------------------------ start-up
callVars == <<pc, cur, ctxDone, hist, calls, faults, cancels, committed>>

\* sqlite.New(dbPath)
New ==
    /\ phase = "boot"
    /\ \E mkdirOk \in BOOLEAN, openOk \in BOOLEAN,
          migrateOk \in BOOLEAN, closeOk \in BOOLEAN :
         LET r == NewResult(mkdirOk, openOk, migrateOk, closeOk) IN
         /\ handle' = r.store
         /\ newErr' = r.err
         /\ migrateFailed' = (mkdirOk /\ openOk /\ ~migrateOk)
         /\ devices' = IF mkdirOk /\ openOk /\ migrateOk
                        THEN Migrate(devices) ELSE devices
         /\ playlists' = IF mkdirOk /\ openOk /\ migrateOk
                          THEN Migrate(playlists) ELSE playlists
    /\ phase' = "opened"
    /\ closed' = FALSE
    /\ closeDone' = FALSE
    /\ UNCHANGED <<reopened, txRows, holders, clock, callVars>>

\* main: logger.Fatalf when New returned an error, else build the handler
\* and ListenAndServe
MainAfterNew ==
    /\ phase = "opened"
    /\ phase' = IF newErr # "nil" THEN "halted" ELSE "serving"
    /\ UNCHANGED <<handle, newErr, migrateFailed, closed, closeDone, reopened,
                   devices, playlists, txRows, holders, clock, callVars>>

\* Store.Close(): return s.db.Close().  Connections in use are closed when
\* they are given back; a transaction that is open can still finish.
StoreClose ==
    /\ phase = "serving"
    /\ handle = "open"
    /\ ~closeDone
    /\ closed' = CloseEffect(closed)
    /\ closeDone' = TRUE
    /\ UNCHANGED <<phase, handle, newErr, migrateFailed, reopened, devices,
                   playlists, txRows, holders, clock, callVars>>

\* The process ends after Close and is started again on the same file.
Restart ==
    /\ phase = "serving"
    /\ closeDone
    /\ \A p \in Procs : pc[p] = "idle"
    /\ holders = {}
    /\ phase' = "boot"
    /\ handle' = "none"
    /\ newErr' = "nil"
    /\ migrateFailed' = FALSE
    /\ reopened' = TRUE
    /\ UNCHANGED <<closed, closeDone, devices, playlists, txRows, holders,
                   clock, callVars>>

\* CURRENT_TIMESTAMP as an insert reads it: not before the last one read
Now == clock..MaxClock

\* ---------------------------------------------------------- store calls
Entry(o) ==
    IF handle = "nil" THEN "nilderef"
    ELSE IF o = "CreateDevice" THEN "cd_exec"
    ELSE IF o = "AddPlaylist" THEN "ap_begin"
    ELSE "lp_check"

\* A request handler calls a method of the store.Store interface.  Callers
\* are interchangeable, so a new call takes the first idle one.
FirstIdle(p) == \A q \in Procs : pc[q] = "idle" => ~Before(q, p)

\* ServeHTTP: the mux hands the request to its handler, which answers at
\* once or calls the store.
Serve(p, limit, reqs) ==
    /\ phase = "serving"
    /\ pc[p] = "idle"
    /\ FirstIdle(p)
    /\ calls < limit
    /\ \E req \in reqs :
         LET h == buildMux(req)
             c == [op |-> h.op, dev |-> h.dev, name |-> h.name, url |-> h.url,
                   call |-> calls + 1, begun |-> Len(hist),
                   had |-> DeviceExists(devices, h.dev),
                   afterClose |-> closeDone, reopened |-> reopened,
                   req |-> req]
         IN IF h.call
            THEN /\ cur' = [cur EXCEPT ![p] = c]
                 /\ pc' = [pc EXCEPT ![p] = Entry(h.op)]
                 /\ hist' = hist
            ELSE /\ hist' = Append(hist,
                              [op |-> c.op, dev |-> c.dev, call |-> c.call,
                               begun |-> c.begun, had |-> c.had,
                               afterClose |-> c.afterClose,
                               reopened |-> c.reopened, req |-> req,
                               err |-> "nil", at |-> "http",
                               created |-> FALSE, rows |-> <<>>,
                               ret |-> <<>>, resp |-> h.resp])
                 /\ UNCHANGED <<pc, cur>>
    /\ calls' = calls + 1
    /\ UNCHANGED <<bootVars, devices, playlists, txRows, holders, clock,
                   ctxDone, faults, cancels, committed>>

\* A handler calls a method of the store.
StartCall(p, limit) ==
    Serve(p, limit, StoreRequests)

Start(p) == StartCall(p, MaxCalls)

\* The same, for a client that issues its calls one after the other.
StartAlone(p) ==
    /\ \A q \in Procs : pc[q] = "idle"
    /\ StartCall(p, MaxSeqCalls)

\* The call of p returns (err, created, rows) to the handler; `at` is the
\* statement the error message names.
Return(p, err, at, created, rows) ==
    /\ pc' = [pc EXCEPT ![p] = "idle"]
    /\ ctxDone' = [ctxDone EXCEPT ![p] = FALSE]
    /\ cur' = [cur EXCEPT ![p] = NoCall]
    /\ hist' = Append(hist,
                 [op |-> cur[p].op, dev |-> cur[p].dev, call |-> cur[p].call,
                  begun |-> cur[p].begun, had |-> cur[p].had,
                  afterClose |-> cur[p].afterClose,
                  reopened |-> cur[p].reopened, req |-> cur[p].req,
                  err |-> err, at |-> at, created |-> created, rows |-> rows,
                  ret |-> ReturnValues(cur[p].op, created, rows),
                  resp |-> Reply(cur[p].op, err, created)])

\* The step goes on to the next statement of the call.
Goto(p, next) ==
    /\ pc' = [pc EXCEPT ![p] = next]
    /\ UNCHANGED <<ctxDone, cur, hist>>

\* s.db.ExecContext, BeginTx, QueryRowContext and QueryContext ask the pool
\* for a connection: a closed pool answers "sql: database is closed", and a
\* context that is done answers ctx.Err().
PoolErr(isClosed) == IF isClosed THEN "closed" ELSE "canceled"

\* Storage faults a step may draw, and their count.
FaultChoices == IF faults < MaxFaults THEN BOOLEAN ELSE {FALSE}

Faulted(hit) == faults' = IF hit THEN faults + 1 ELSE faults

\* The request's context is cancelled (client gone, deadline passed).
Cancel(p) ==
    /\ pc[p] \notin {"idle", "nilderef"}
    /\ ~ctxDone[p]
    /\ cancels < MaxCancels
    /\ cancels' = cancels + 1
    /\ ctxDone' = [ctxDone EXCEPT ![p] = TRUE]
    /\ UNCHANGED <<bootVars, devices, playlists, txRows, holders, clock, pc,
                   cur, hist, calls, faults, committed>>

\* database/sql's awaitDone: a transaction begun with BeginTx(ctx) is rolled
\* back, and its connection released, once ctx is done.
TxAwaitDone(p) ==
    /\ ctxDone[p]
    /\ p \in holders
    /\ holders' = holders \ {p}
    /\ txRows' = [txRows EXCEPT ![p] = <<>>]
    /\ UNCHANGED <<bootVars, devices, playlists, clock, callVars>>

\* New returned (nil, nil): every method dereferences the nil *Store and
\* panics; net/http recovers the panic, the method never returns.
NilDeref(p) ==
    /\ pc[p] = "nilderef"
    /\ pc' = [pc EXCEPT ![p] = "idle"]
    /\ cur' = [cur EXCEPT ![p] = NoCall]
    /\ UNCHANGED <<bootVars, devices, playlists, txRows, holders, clock,
                   ctxDone, hist, calls, faults, cancels, committed>>

\* Store.CreateDevice: s.db.ExecContext(ctx, query, deviceID), RowsAffected
CreateDevice(p) ==
    /\ pc[p] = "cd_exec"
    /\ \E fault \in FaultChoices :
         IF closed \/ ctxDone[p]
         THEN /\ ~fault
              /\ Return(p, PoolErr(closed), "exec", FALSE, <<>>)
              /\ UNCHANGED <<devices, committed, faults, clock>>
         ELSE /\ CanAcquire(holders)
              /\ Faulted(fault)
              /\ IF fault
                 THEN /\ Return(p, "io", "exec", FALSE, <<>>)
                      /\ UNCHANGED <<devices, committed, clock>>
                 ELSE \E ts \in Now :
                      LET r == InsertDevice(devices, cur[p].dev, ts,
                                            cur[p].call) IN
                      /\ clock' = ts
                      /\ devices' = r.rows
                      /\ committed' = committed \cup {cur[p].call}
                      /\ Return(p, "nil", "", Created(r.affected), <<>>)
    /\ UNCHANGED <<bootVars, playlists, txRows, holders, calls, cancels>>

\* AddPlaylist returns err: the deferred func rolls the transaction back when
\* err != nil; a transaction that is over gives its connection back.
AddPlaylistReturn(p, err, at, commitRan) ==
    /\ holders' = IF TxEndedOnReturn(err, commitRan)
                  THEN holders \ {p} ELSE holders
    /\ txRows' = [txRows EXCEPT ![p] =
                    IF TxEndedOnReturn(err, commitRan) THEN <<>> ELSE @]
    /\ Return(p, err, at, FALSE, <<>>)

\* Store.AddPlaylist: tx, err := s.db.BeginTx(ctx, nil)
BeginTx(p) ==
    /\ pc[p] = "ap_begin"
    /\ \E fault \in FaultChoices :
         IF closed \/ ctxDone[p]
         THEN /\ ~fault
              /\ Return(p, PoolErr(closed), "begin", FALSE, <<>>)
              /\ UNCHANGED <<holders, txRows, faults>>
         ELSE /\ CanAcquire(holders)
              /\ Faulted(fault)
              /\ IF fault
                 THEN /\ Return(p, "io", "begin", FALSE, <<>>)
                      /\ UNCHANGED <<holders, txRows>>
                 ELSE /\ holders' = holders \cup {p}
                      /\ txRows' = [txRows EXCEPT ![p] = <<>>]
                      /\ Goto(p, "ap_check")
    /\ UNCHANGED <<bootVars, devices, playlists, clock, calls, cancels,
                   committed>>

\* Store.AddPlaylist: the device check inside the transaction
AddPlaylistCheck(p) ==
    /\ pc[p] = "ap_check"
    /\ \E fault \in FaultChoices :
         LET e == IF ctxDone[p] THEN "canceled"
                  ELSE IF fault THEN "io"
                  ELSE TxCheckDevice(devices, cur[p].dev) IN
         /\ ctxDone[p] => ~fault
         /\ Faulted(fault)
         /\ IF e = "nil"
            THEN /\ Goto(p, "ap_insert")
                 /\ UNCHANGED <<holders, txRows>>
            ELSE AddPlaylistReturn(p, e, "check", FALSE)
    /\ UNCHANGED <<bootVars, devices, playlists, clock, calls, cancels,
                   committed>>

\* Store.AddPlaylist: the insert inside the transaction
AddPlaylistInsert(p) ==
    /\ pc[p] = "ap_insert"
    /\ \E fault \in FaultChoices :
         /\ ctxDone[p] => ~fault
         /\ Faulted(fault)
         /\ IF ctxDone[p] \/ fault
            THEN /\ AddPlaylistReturn(p, IF ctxDone[p] THEN "canceled" ELSE "io",
                                      "insert", FALSE)
                 /\ UNCHANGED <<playlists, clock>>
            ELSE \E ts \in Now :
                 LET r == TxExecInsert(devices, playlists, txRows[p],
                                       cur[p].dev, cur[p].name, cur[p].url,
                                       ts, cur[p].call) IN
                 /\ clock' = ts
                 /\ playlists' = r.table
                 /\ IF r.err = "nil"
                    THEN /\ txRows' = [txRows EXCEPT ![p] = r.staged]
                         /\ Goto(p, "ap_commit")
                         /\ UNCHANGED holders
                    ELSE AddPlaylistReturn(p, r.err, "insert", FALSE)
    /\ UNCHANGED <<bootVars, devices, calls, cancels, committed>>

\* Store.AddPlaylist: tx.Commit() and the return
AddPlaylistCommit(p) ==
    /\ pc[p] = "ap_commit"
    /\ \E fault \in FaultChoices :
         LET r == TxCommit(playlists, txRows[p], ctxDone[p], fault) IN
         /\ ctxDone[p] => ~fault
         /\ Faulted(fault)
         /\ playlists' = r.table
         /\ committed' = IF r.err = "nil" THEN committed \cup {cur[p].call}
                         ELSE committed
         /\ AddPlaylistReturn(p, r.err, IF r.err = "nil" THEN "" ELSE "commit",
                              ~ctxDone[p])
    /\ UNCHANGED <<bootVars, devices, clock, calls, cancels>>

\* Store.ListPlaylists: the device check, outside any transaction
ListCheckDeviceSkipped(devs, d) == "nil"

ListCheckDevice(devs, d) ==
    IF DeviceExists(devs, d) THEN "nil" ELSE ErrDeviceNotFound

ListPlaylistsCheck(p) ==
    /\ pc[p] = "lp_check"
    /\ \E fault \in FaultChoices :
         IF closed \/ ctxDone[p]
         THEN /\ ~fault
              /\ Return(p, PoolErr(closed), "check", FALSE, <<>>)
              /\ UNCHANGED faults
         ELSE /\ CanAcquire(holders)
              /\ Faulted(fault)
              /\ LET e == IF fault THEN "io"
                          ELSE ListCheckDevice(devices, cur[p].dev) IN
                 IF e = "nil"
                 THEN Goto(p, "lp_query")
                 ELSE Return(p, e, "check", FALSE, <<>>)
    /\ UNCHANGED <<bootVars, devices, playlists, txRows, holders, clock,
                   calls, cancels, committed>>

\* Store.ListPlaylists: the query, the scan loop, rows.Err, rows.Close
ListPlaylistsQuery(p) ==
    /\ pc[p] = "lp_query"
    /\ \E fault \in FaultChoices :
         IF closed \/ ctxDone[p]
         THEN /\ ~fault
              /\ Return(p, PoolErr(closed), "query", FALSE, <<>>)
              /\ UNCHANGED faults
         ELSE /\ CanAcquire(holders)
              /\ Faulted(fault)
              /\ IF fault
                 THEN Return(p, "io", "query", FALSE, <<>>)
                 ELSE Return(p, "nil", "", FALSE,
                             SelectPlaylists(playlists, cur[p].dev))
    /\ UNCHANGED <<bootVars, devices, playlists, txRows, holders, clock,
                   calls, cancels, committed>>

\* ---------------------------------------------------- specifications
Step(p) ==
    \/ Cancel(p)
    \/ TxAwaitDone(p)
    \/ NilDeref(p)
    \/ CreateDevice(p)
    \/ BeginTx(p)
    \/ AddPlaylistCheck(p)
    \/ AddPlaylistInsert(p)
    \/ AddPlaylistCommit(p)
    \/ ListPlaylistsCheck(p)
    \/ ListPlaylistsQuery(p)

Next ==
    \/ New
    \/ MainAfterNew
    \/ \E p \in Procs : Start(p)
    \/ \E p \in Procs : Step(p)

Spec == Init /\ [][Next]_vars

\* Callers that never overlap and never cancel: a call starts only when
\* none is running, and runs to its return; storage faults still happen.
StepSeq(p) ==
    \/ NilDeref(p)
    \/ CreateDevice(p)
    \/ BeginTx(p)
    \/ AddPlaylistCheck(p)
    \/ AddPlaylistInsert(p)
    \/ AddPlaylistCommit(p)
    \/ ListPlaylistsCheck(p)
    \/ ListPlaylistsQuery(p)

NextSeq ==
    \/ New
    \/ MainAfterNew
    \/ \E p \in Procs : StartAlone(p)
    \/ \E p \in Procs : StepSeq(p)

SpecSeq == Init /\ [][NextSeq]_vars

\* The Go scheduler runs every goroutine that can run: the call of each
\* caller goes on while its next statement is enabled.
Fairness == \A p \in Procs : WF_vars(StepSeq(p))

\* Concurrent callers whose contexts are never cancelled, scheduled fairly.
NextLive ==
    \/ New
    \/ MainAfterNew
    \/ \E p \in Procs : Start(p)
    \/ \E p \in Procs : StepSeq(p)

SpecLive == Init /\ [][NextLive]_vars /\ Fairness

\* The life of the store: one caller at a time, Close, and the process
\* started again on the file the earlier run left.
StartLife(p) ==
    /\ \A q \in Procs : pc[q] = "idle"
    /\ StartCall(p, MaxLifeCalls)

NextLife ==
    \/ New
    \/ MainAfterNew
    \/ StoreClose
    \/ Restart
    \/ \E p \in Procs : StartLife(p)
    \/ \E p \in Procs : StepSeq(p)

SpecLife == Init /\ [][NextLife]_vars

\* The HTTP surface: any request, served one at a time.
StartHttp(p) ==
    /\ \A q \in Procs : pc[q] = "idle"
    /\ Serve(p, MaxHttpCalls, Requests)

NextHttp ==
    \/ New
    \/ MainAfterNew
    \/ \E p \in Procs : StartHttp(p)
    \/ \E p \in Procs : StepSeq(p)

SpecHttp == Init /\ [][NextHttp]_vars

\* ------------------------------------------------------------- claims
Registered(d) == d \in {devices[i].device_identifier : i \in 1..Len(devices)}

Calls == 1..Len(hist)

IsCall(i, o) == hist[i].op = o

\* Rows a call left in the durable tables
DeviceRowsOf(c)   == {i \in 1..Len(devices) : devices[i].call = c}
PlaylistRowsOf(c) == {i \in 1..Len(playlists) : playlists[i].call = c}

\* Call j started after call i had returned
After(i, j) == hist[j].begun >= i

\* A storage fault or a cancelled context made the call fail
Upset(e) == e.err \in {"io", "canceled"}

\* C1: in every reachable state, under any interleaving of CreateDevice,
\* AddPlaylist and ListPlaylists calls, every persisted playlist row (and
\* every row a ListPlaylists returned) refers to a device identifier that is
\* in the devices table.
C1_NoOrphanPlaylist ==
    /\ \A i \in 1..Len(playlists) : Registered(playlists[i].device_identifier)
    /\ \A k \in Calls : \A a \in 1..Len(hist[k].rows) :
         Registered(hist[k].rows[a].device_identifier)

\* A playlist is persisted, and an AddPlaylist on an unknown device that
\* overlapped the call that persisted it has returned.
C1_Witness ==
    /\ Len(playlists) > 0
    /\ \E i \in Calls : \E j \in Calls :
         /\ i < j /\ ~After(i, j)
         /\ IsCall(i, "AddPlaylist") /\ IsCall(j, "AddPlaylist")
         /\ ~Registered(hist[i].dev) \/ ~Registered(hist[j].dev)

\* C2: from a store with no device D, two successive CreateDevice(D) calls
\* that return a nil error return created = true and then created = false,
\* and afterwards exactly one device row has identifier D.
C2_IdempotentRegistration ==
    \A i \in Calls : \A j \in Calls :
        ( /\ i < j
          /\ IsCall(i, "CreateDevice") /\ IsCall(j, "CreateDevice")
          /\ hist[i].dev = hist[j].dev
          /\ hist[i].err = "nil" /\ hist[j].err = "nil"
          /\ ~hist[i].had )
        => /\ hist[i].created
           /\ ~hist[j].created
           /\ Cardinality({k \in 1..Len(devices) :
                  devices[k].device_identifier = hist[i].dev}) = 1

C2_Witness ==
    \E i \in Calls : \E j \in Calls :
        /\ i < j
        /\ IsCall(i, "CreateDevice") /\ IsCall(j, "CreateDevice")
        /\ hist[i].dev = hist[j].dev
        /\ hist[i].err = "nil" /\ hist[j].err = "nil"
        /\ ~hist[i].had

\* C3: for an identifier D that was never registered, AddPlaylist(D, ..)
\* always fails: with ErrDeviceNotFound, or with the storage fault or
\* cancellation that stopped it at BeginTx or at the device check; it never
\* reaches the insert, its transaction is over when it returns, and the
\* store holds no row of that call and no playlist row for D.
C3_UnknownDeviceRejected ==
    /\ \A i \in Calls :
         (IsCall(i, "AddPlaylist") /\ ~Registered(hist[i].dev))
         => /\ hist[i].err = ErrDeviceNotFound
               \/ (Upset(hist[i]) /\ hist[i].at \in {"begin", "check"})
            /\ hist[i].err = ErrDeviceNotFound => hist[i].at = "check"
            /\ PlaylistRowsOf(hist[i].call) = {}
            /\ DeviceRowsOf(hist[i].call) = {}
            /\ \A k \in 1..Len(playlists) :
                 playlists[k].device_identifier # hist[i].dev
    /\ \A p \in Procs : pc[p] = "idle" => (p \notin holders /\ txRows[p] = <<>>)

C3_Witness ==
    \E i \in Calls :
        /\ IsCall(i, "AddPlaylist")
        /\ ~Registered(hist[i].dev)
        /\ hist[i].err = ErrDeviceNotFound

\* C4: when a storage fault hits AddPlaylist after the device check has
\* succeeded and before the commit completes (the insert fails or the commit
\* fails), AddPlaylist returns an error, no playlist row of that call is
\* persisted and no ListPlaylists ever returns one.
C4_FaultLeavesNoRow ==
    \A i \in Calls :
        (IsCall(i, "AddPlaylist") /\ hist[i].at \in {"insert", "commit"})
        => /\ hist[i].err # "nil"
           /\ PlaylistRowsOf(hist[i].call) = {}
           /\ \A k \in Calls : \A a \in 1..Len(hist[k].rows) :
                hist[k].rows[a].call # hist[i].call

\* The commit of an AddPlaylist failed by a storage fault, and a later
\* ListPlaylists of the same device returned.
C4_Witness ==
    \E i \in Calls : \E k \in Calls :
        /\ IsCall(i, "AddPlaylist")
        /\ hist[i].at = "commit" /\ hist[i].err = "io"
        /\ IsCall(k, "ListPlaylists") /\ hist[k].dev = hist[i].dev
        /\ hist[k].err = "nil" /\ After(i, k)

\* Position of the row of call c in the rows a ListPlaylists returned
\* (0 when it is not among them)
PosOf(rows, c) ==
    IF \E a \in 1..Len(rows) : rows[a].call = c
    THEN CHOOSE a \in 1..Len(rows) : rows[a].call = c
    ELSE 0

C6_EmptyIsNotMissing ==
    \A k \in Calls :
        IsCall(k, "ListPlaylists")
        => /\ hist[k].err \in {"nil", ErrDeviceNotFound, "io", "canceled"}
           /\ hist[k].err = "nil" => Registered(hist[k].dev)
           /\ hist[k].err = ErrDeviceNotFound => ~hist[k].had
           /\ hist[k].err # "nil" => hist[k].rows = <<>>
           /\ ~Registered(hist[k].dev) => hist[k].err # "nil"
           /\ ( /\ hist[k].err = "nil"
                /\ \A a \in 1..Len(playlists) :
                     playlists[a].device_identifier # hist[k].dev )
              => hist[k].rows = <<>>

\* One ListPlaylists returned the empty sequence for a registered device
\* and another returned ErrDeviceNotFound.
C6_Witness ==
    \E k \in Calls : \E m \in Calls :
        /\ IsCall(k, "ListPlaylists") /\ IsCall(m, "ListPlaylists")
        /\ hist[k].err = "nil" /\ hist[k].rows = <<>> /\ hist[k].had
        /\ hist[m].err = ErrDeviceNotFound /\ ~Registered(hist[m].dev)

\* C7: at most one caller holds the store's connection at any instant: two
\* AddPlaylist transactions are never open together, and no statement of
\* CreateDevice or ListPlaylists runs while an AddPlaylist transaction is
\* between its begin and its commit or rollback.
StatementRan ==
    /\ Len(hist') = Len(hist) + 1
    /\ hist'[Len(hist')].op \in {"CreateDevice", "ListPlaylists"}
    /\ hist'[Len(hist')].err # "canceled"

C7_SingleWriter ==
    /\ [](Cardinality(holders) <= 1)
    /\ [][(StatementRan \/ devices' # devices) => holders = {}]_vars

\* A transaction is open while another caller waits to run CreateDevice.
C7_Witness ==
    \E p \in Procs : \E q \in Procs :
        /\ p \in holders
        /\ pc[p] = "ap_commit"
        /\ pc[q] = "cd_exec"

\* C8: a ListPlaylists running concurrently with AddPlaylist calls returns
\* only playlists of committed transactions: every row it returns is a row
\* of the playlists table put there by a commit that succeeded.
C8_NoUncommittedRead ==
    \A k \in Calls : \A a \in 1..Len(hist[k].rows) :
        /\ hist[k].rows[a].call \in committed
        /\ hist[k].rows[a] \in Range(playlists)

\* A ListPlaylists overlapped an AddPlaylist of the same device whose
\* inserted row was rolled back, and returned.
C8_Witness ==
    \E i \in Calls : \E k \in Calls :
        /\ IsCall(i, "AddPlaylist") /\ hist[i].at = "commit"
        /\ IsCall(k, "ListPlaylists") /\ hist[k].err = "nil"
        /\ hist[k].dev = hist[i].dev
        /\ i < k /\ ~After(i, k)

\* C9: a CreateDevice or AddPlaylist whose context is cancelled before its
\* write commits either returns nil with its full effect (its one row is in
\* the table) or returns an error with no row of the call in the store; a
\* running call has no row in the store either.
C9_AllOrNothing ==
    /\ \A i \in Calls :
         /\ (IsCall(i, "AddPlaylist") /\ hist[i].err = "nil")
            => Cardinality(PlaylistRowsOf(hist[i].call)) = 1
         /\ (IsCall(i, "CreateDevice") /\ hist[i].err = "nil")
            => /\ Registered(hist[i].dev)
               /\ Cardinality(DeviceRowsOf(hist[i].call))
                    = IF hist[i].created THEN 1 ELSE 0
         /\ hist[i].err # "nil"
            => PlaylistRowsOf(hist[i].call) = {} /\ DeviceRowsOf(hist[i].call) = {}
    /\ \A p \in Procs :
         pc[p] # "idle"
         => PlaylistRowsOf(cur[p].call) = {} /\ DeviceRowsOf(cur[p].call) = {}

\* An AddPlaylist was cancelled after its insert and before its commit.
C9_Witness ==
    \E i \in Calls :
        /\ IsCall(i, "AddPlaylist")
        /\ hist[i].err = "canceled" /\ hist[i].at = "commit"

\* C10: when migrate fails while the store is opened, New returns a non-nil
\* error and no usable handle, and main halts instead of serving.
C10_MigrateFailureIsFatal ==
    migrateFailed => (newErr # "nil" /\ handle # "open" /\ phase # "serving")

\* C11: a CreateDevice, AddPlaylist or ListPlaylists call started after
\* Close() has returned (and before the store is opened again) returns an
\* error, reports nothing, holds no connection and leaves no row of its own
\* in devices or playlists.
C11_NoServiceAfterClose ==
    /\ \A i \in Calls :
         hist[i].afterClose
         => /\ hist[i].err # "nil"
            /\ hist[i].rows = <<>> /\ ~hist[i].created
            /\ PlaylistRowsOf(hist[i].call) = {}
            /\ DeviceRowsOf(hist[i].call) = {}
    /\ \A p \in Procs :
         (pc[p] # "idle" /\ cur[p].afterClose)
         => /\ p \notin holders
            /\ PlaylistRowsOf(cur[p].call) = {}
            /\ DeviceRowsOf(cur[p].call) = {}

\* An AddPlaylist on a registered device, started after Close, was refused
\* because the database is closed.
C11_Witness ==
    \E i \in Calls :
        /\ IsCall(i, "AddPlaylist") /\ hist[i].afterClose
        /\ Registered(hist[i].dev)
        /\ hist[i].err = "closed"

\* C12: opening a store whose file an earlier run left keeps every device
\* and playlist row (the step of New changes neither table); a playlist
\* attached before Close is reported by every successful ListPlaylists of
\* its device after the store is opened again, and a successful
\* CreateDevice after the reopening, of an identifier registered before it,
\* returns created = false.  (New can still fail on a storage fault.)
C12_ReopenKeepsData ==
    /\ [][phase = "boot" => (devices' = devices /\ playlists' = playlists)]_vars
    /\ [](\A i \in Calls : \A k \in Calls :
            ( /\ ~hist[i].reopened /\ hist[k].reopened
              /\ hist[i].err = "nil" /\ hist[k].err = "nil"
              /\ hist[i].dev = hist[k].dev )
            => /\ (IsCall(i, "AddPlaylist") /\ IsCall(k, "ListPlaylists"))
                  => PosOf(hist[k].rows, hist[i].call) > 0
               /\ (IsCall(i, "CreateDevice") /\ IsCall(k, "CreateDevice"))
                  => ~hist[k].created)

\* A playlist attached in the first run was listed after Close and a
\* second, successful New.
C12_Witness ==
    \E i \in Calls : \E k \in Calls :
        /\ IsCall(i, "AddPlaylist") /\ IsCall(k, "ListPlaylists")
        /\ ~hist[i].reopened /\ hist[k].reopened
        /\ hist[i].err = "nil" /\ hist[k].err = "nil"
        /\ hist[i].dev = hist[k].dev
        /\ PosOf(hist[k].rows, hist[i].call) > 0

\* Requests by route, and what the claims say of their bodies.
IsPost(i, path) == hist[i].req.method = "POST" /\ hist[i].req.path = path

NoRowOf(i) ==
    PlaylistRowsOf(hist[i].call) = {} /\ DeviceRowsOf(hist[i].call) = {}

Blank(str) == str \in {"", " "}

HasScheme(raw) == raw \in {"u1", "mailto:u1"}

HasHost(raw) == raw = "u1"

\* C13: every error response of the HTTP surface (status 400, 404, 405 or
\* 500) has Content-Type application/json and a body {"error": string}.
C13_ErrorsAreJson ==
    \A i \in Calls :
        hist[i].resp.status >= 400
        => /\ hist[i].resp.ctype = "application/json"
           /\ hist[i].resp.shape = "error"

\* What C14 says of the POST /devices request i, where `present` tells
\* whether its deviceId counts as present and non-empty: a present one is
\* answered 201 (created) exactly when the store did not hold the device,
\* 200 when it did, 500 only on a storage error; any other one is answered
\* 400 and the store is not called.
DeviceAnswer(i, present) ==
    IF present
    THEN /\ hist[i].err = "nil"
            => /\ hist[i].resp.status = IF hist[i].had THEN 200 ELSE 201
               /\ hist[i].created = ~hist[i].had
               /\ Registered(hist[i].dev)
         /\ hist[i].err # "nil"
            => /\ Upset(hist[i]) /\ hist[i].resp.status = 500
               /\ NoRowOf(i)
    ELSE /\ hist[i].resp.status = 400
         /\ hist[i].at = "http"
         /\ NoRowOf(i)

\* Of the POST /devices requests for one identifier, only the first that
\* succeeded was answered 201.
OnlyFirstCreated ==
    \A i \in Calls : \A j \in Calls :
        ( /\ IsPost(i, "/devices") /\ IsPost(j, "/devices")
          /\ i < j /\ hist[i].dev = hist[j].dev
          /\ hist[i].resp.status \in {200, 201} )
        => hist[j].resp.status # 201

\* C14 as stated: POST /devices with a decodable body whose deviceId is
\* not the empty string is answered 201/created exactly when the device
\* was new and 200 when it was known; a missing or empty deviceId is
\* answered 400 without a store change; only the first successful request
\* of an identifier is answered 201.
C14_AsStated ==
    /\ \A i \in Calls :
         IsPost(i, "/devices")
         => DeviceAnswer(i, hist[i].req.json /\ hist[i].req.deviceId # "")
    /\ OnlyFirstCreated

\* C14, amended: the same, where a deviceId made of white space only
\* counts as empty (the handler trims it before the test).
C14_CreateDeviceAnswers ==
    /\ \A i \in Calls :
         IsPost(i, "/devices")
         => DeviceAnswer(i, hist[i].req.json /\ ~Blank(hist[i].req.deviceId))
    /\ OnlyFirstCreated

\* A new identifier was posted twice: answered 201, then 200.
C14_Witness ==
    \E i \in Calls : \E j \in Calls :
        /\ IsPost(i, "/devices") /\ IsPost(j, "/devices")
        /\ i < j /\ hist[i].dev = hist[j].dev
        /\ hist[i].resp.status = 201 /\ hist[j].resp.status = 200

\* What C15 says of the POST /devices/{id}/playlists request i, where
\* `valid` tells whether its body counts as valid: an invalid one is
\* answered 400 and the store is not called, whether or not the device
\* exists; a valid one for an unknown device is answered 404 with no row; a
\* valid one for a known device is answered 201 with exactly one row of
\* that device; 500 only on a storage error, with no row.
PlaylistAnswer(i, valid) ==
    IF ~valid
    THEN /\ hist[i].resp.status = 400
         /\ hist[i].at = "http"
         /\ NoRowOf(i)
    ELSE /\ hist[i].err = "nil"
            => /\ hist[i].had
               /\ hist[i].resp.status = 201
               /\ Cardinality(PlaylistRowsOf(hist[i].call)) = 1
               /\ \A n \in PlaylistRowsOf(hist[i].call) :
                    playlists[n].device_identifier = hist[i].req.id
         /\ hist[i].err # "nil"
            => /\ NoRowOf(i)
               /\ \/ ~hist[i].had /\ hist[i].resp.status = 404
                  \/ Upset(hist[i]) /\ hist[i].resp.status = 500
         /\ (~hist[i].had /\ ~Upset(hist[i])) => hist[i].resp.status = 404

C16_AsStated ==
    \A i \in Calls :
        (IsCall(i, "AddPlaylist") /\ hist[i].err = "nil")
        => \A n \in PlaylistRowsOf(hist[i].call) :
             hist[i].ret = <<playlists[n].created_at>>

\* C16, amended: a successful AddPlaylist hands back nothing but the nil
\* error; the created_at of the row it created is what every later
\* successful ListPlaylists of the device reports for that playlist.
C16_TimestampOnlyListed ==
    \A i \in Calls :
        (IsCall(i, "AddPlaylist") /\ hist[i].err = "nil")
        => /\ hist[i].ret = <<>>
           /\ \A k \in Calls :
                ( /\ IsCall(k, "ListPlaylists") /\ hist[k].err = "nil"
                  /\ hist[k].dev = hist[i].dev /\ i < k /\ After(i, k) )
                => /\ PosOf(hist[k].rows, hist[i].call) > 0
                   /\ \A n \in PlaylistRowsOf(hist[i].call) :
                        hist[k].rows[PosOf(hist[k].rows, hist[i].call)].created_at
                          = playlists[n].created_at

\* A playlist was attached at a time after 0 and then listed.
C16_Witness ==
    \E i \in Calls : \E k \in Calls :
        /\ IsCall(i, "AddPlaylist") /\ hist[i].err = "nil"
        /\ IsCall(k, "ListPlaylists") /\ hist[k].err = "nil"
        /\ hist[k].dev = hist[i].dev /\ i < k /\ After(i, k)
        /\ \E n \in PlaylistRowsOf(hist[i].call) : playlists[n].created_at > 0

\* CreateDevice calls on d that have returned, and d's rows.
CreatesOf(d) == {i \in Calls : IsCall(i, "CreateDevice") /\ hist[i].dev = d}

RowsOfDevice(d) ==
    {n \in 1..Len(devices) : devices[n].device_identifier = d}

\* C17: when callers call CreateDevice with one identifier d, also at the
\* same time, no call fails on the uniqueness of d (an error is a storage
\* fault or a cancellation only), d never has more than one row, and when d
\* was not registered before the calls, exactly one of the calls that
\* returned nil returned created = true and d has exactly one row.
C17_OneCreatorUnderRace ==
    \A d \in Devices :
        /\ \A i \in CreatesOf(d) : hist[i].err = "nil" \/ Upset(hist[i])
        /\ Cardinality(RowsOfDevice(d)) <= 1
        /\ ( /\ \A n \in RowsOfDevice(d) : devices[n].call # 0
             /\ \E i \in CreatesOf(d) : hist[i].err = "nil" )
           => /\ Cardinality({i \in CreatesOf(d) :
                                hist[i].err = "nil" /\ hist[i].created}) = 1
              /\ Cardinality(RowsOfDevice(d)) = 1

\* Two CreateDevice calls on an unregistered identifier overlapped and
\* both returned nil.
C17_Witness ==
    \E i \in Calls : \E j \in Calls :
        /\ i < j
        /\ IsCall(i, "CreateDevice") /\ IsCall(j, "CreateDevice")
        /\ hist[i].dev = hist[j].dev
        /\ ~After(i, j)
        /\ ~hist[i].had /\ ~hist[j].had
        /\ hist[i].err = "nil" /\ hist[j].err = "nil"
        /\ hist[i].created /\ ~hist[j].created

\* C18: a caller that is not inside a call holds no connection (every
\* return path of AddPlaylist has ended its transaction); a connection that
\* is held is released in the end; and every call that has started
\* returns in the end.
C18_ConnectionReleased ==
    /\ [](\A p \in Procs : pc[p] = "idle" => p \notin holders)
    /\ \A p \in Procs : (p \in holders) ~> (p \notin holders)
    /\ \A p \in Procs : (pc[p] # "idle") ~> (pc[p] = "idle")

\* An AddPlaylist returned ErrDeviceNotFound from inside its transaction,
\* and a call started after it got the connection and returned nil.
C18_Witness ==
    \E i \in Calls : \E j \in Calls :
        /\ IsCall(i, "AddPlaylist")
        /\ hist[i].err = ErrDeviceNotFound /\ hist[i].at = "check"
        /\ i < j /\ After(i, j)
        /\ ~IsCall(j, "ListPlaylists") /\ hist[j].err = "nil"
        /\ holders = {}

\* C19: once AddPlaylist on d has returned nil, every successful
\* ListPlaylists of d started afterwards contains its playlist; and once
\* CreateDevice of d has returned nil, no AddPlaylist or ListPlaylists of d
\* started afterwards returns ErrDeviceNotFound.
C19_IssueOrder ==
    \A i \in Calls : \A k \in Calls :
        ( /\ hist[i].err = "nil" /\ hist[i].dev = hist[k].dev
          /\ i < k /\ After(i, k) )
        => /\ ( /\ IsCall(i, "AddPlaylist") /\ IsCall(k, "ListPlaylists")
                /\ hist[k].err = "nil" )
              => PosOf(hist[k].rows, hist[i].call) > 0
           /\ ( /\ IsCall(i, "CreateDevice")
                /\ IsCall(k, "AddPlaylist") \/ IsCall(k, "ListPlaylists") )
              => hist[k].err # ErrDeviceNotFound

\* A device was created, and a playlist attached to it afterwards was
\* reported by a ListPlaylists issued after that.
C19_Witness ==
    \E i \in Calls : \E j \in Calls : \E k \in Calls :
        /\ IsCall(i, "CreateDevice") /\ hist[i].created
        /\ IsCall(j, "AddPlaylist") /\ hist[j].err = "nil"
        /\ IsCall(k, "ListPlaylists") /\ hist[k].err = "nil"
        /\ hist[i].dev = hist[j].dev /\ hist[j].dev = hist[k].dev
        /\ i < j /\ After(i, j) /\ j < k /\ After(j, k)
        /\ PosOf(hist[k].rows, hist[j].call) > 0

\* The rows a table had are still there, in place and unchanged.
Kept(before, after) ==
    /\ Len(before) <= Len(after)
    /\ \A n \in 1..Len(before) : after[n] = before[n]

\* The step is a statement of p's call.
Moved(p) == pc'[p] # pc[p]

\* C20: no step removes or changes a device or playlist row (both tables
\* only grow at the end); a step of ListPlaylists changes neither table, a
\* step of AddPlaylist leaves devices as it is, and a step of CreateDevice
\* leaves playlists as it is.
C20_RowsOnlyAdded ==
    [][ /\ Kept(devices, devices')
        /\ Kept(playlists, playlists')
        /\ \A p \in Procs :
             /\ (Moved(p) /\ pc[p] \in {"lp_check", "lp_query"})
                => (devices' = devices /\ playlists' = playlists)
             /\ (Moved(p) /\ pc[p] \in {"ap_begin", "ap_check", "ap_insert",
                                         "ap_commit"})
                => devices' = devices
             /\ (Moved(p) /\ pc[p] = "cd_exec")
                => playlists' = playlists ]_vars

\* CreateDevice of a registered device ran while the store held a playlist.
C20_Witness ==
    /\ Len(playlists) > 0
    /\ \E i \in Calls :
         /\ IsCall(i, "CreateDevice") /\ hist[i].err = "nil"
         /\ hist[i].had /\ ~hist[i].created
         /\ \E j \in Calls : j < i /\ IsCall(j, "AddPlaylist")
                                /\ hist[j].err = "nil"
====
